---- MODULE Spec2Model ----
(***************************************************************************)
(* The swww daemon's event loop (daemon/src/main.rs) and its two animator  *)
(* kinds (daemon/src/animations/mod.rs).                                   *)
(*                                                                         *)
(* The Wallpaper type (daemon/src/wallpaper.rs) and Transition::execute    *)
(* (daemon/src/animations/transitions.rs) are not part of the sources at   *)
(* hand; the operators that stand for them follow the written design and   *)
(* are marked "design" below.                                              *)
(*                                                                         *)
(* Time is in microseconds.  An Instant field `now` is kept as the time    *)
(* elapsed since it was taken (`elapsed`), which is all the code reads.    *)
(* Option<T> is a sequence of length at most one.                          *)
(***************************************************************************)
EXTENDS Integers, Sequences, FiniteSets, TLC

VARIABLES
    wallpapers,            \* Daemon.wallpapers: Vec<Rc<RefCell<Wallpaper>>>, as ids
    wp,                    \* the Wallpaper objects behind the Rc's, by id
    transition_animators,  \* Daemon.transition_animators
    image_animators,       \* Daemon.image_animators
    poll_time,             \* Daemon.poll_time
    EXIT,                  \* static EXIT: AtomicBool
    pc,                    \* main: "loop" (about to test EXIT and poll), "retry" (the same,
                           \* after a `continue`), "exited" (returned Ok), "failed"
                           \* (returned Err), "panicked"
    socket,                \* the listening socket's file exists
    answer,                \* the answer sent to the client in the last iteration
    errors,                \* the errors logged in the last iteration
    created,               \* number of wl_output globals advertised so far
    reqCount,              \* number of Clear/Img requests handled so far
    pairCount,             \* number of (image, outputs) pairs handled so far
    promoted,              \* the promotions of the last iteration's draw passes
    pass                   \* the last draw pass of the last iteration

vars == <<wallpapers, wp, transition_animators, image_animators, poll_time,
          EXIT, pc, socket, answer, errors, created, reqCount, pairCount,
          promoted, pass>>

----------------------------------------------------------------------------
(* Bounds of the model *)

MaxOutputs == 2        \* outputs the compositor advertises over the run
MaxRequests == 2       \* Clear/Img requests over the run
MaxPairs == 2          \* (image, outputs) pairs of the Img requests over the run
MaxImgs == 2           \* longest imgs / outputs / animations list of a request
MaxFrames == 2         \* frames of the longest animation
FrameUnit == 1000      \* frame k of an animation lasts k * FrameUnit
MaxIndex == 3          \* frame() calls per ImageAnimator
TransitionSteps == 2   \* execute calls a transition needs to reach progress 1.0
TickStep == 3000       \* time that passes at once between two events
MaxElapsed == 3000     \* elapsed times saturate here (no period is longer)
FramePeriod == 2000    \* transition.fps of the requests
Bits == 8              \* width of the integers of the wire (32 in the program)
MaxThreads == 2        \* workers of the threaded Animator alive at once

(* Program constants *)
DrawThreshold == 1200  \* Duration::from_micros(1200)
FLIPPED_270 == 7       \* wl_output::transform::FLIPPED_270

Ids == 1..MaxOutputs
DimSet == {<<1, 1>>, <<2, 1>>}
Colors == {1}
CanvasResults == {"Ok", "Err"}

None == <<>>
Some(x) == <<x>>

Range(s) == {s[k] : k \in 1..Len(s)}
Min(a, b) == IF a < b THEN a ELSE b

\* the sequence of the values of a function on 1..n, built element by element
RECURSIVE Collect(_, _)
Collect(f, n) == IF n = 0 THEN <<>> ELSE Append(Collect(f, n - 1), f[n])

----------------------------------------------------------------------------
(* Rust library operations *)

\* a subtraction that does not saturate
wrapping_sub(a, b) == a - b

\* Duration::saturating_sub
saturating_sub(a, b) == IF a > b THEN a - b ELSE 0

\* Vec::swap_remove: the last element takes the place of the removed one
swap_remove(s, i) ==
    IF i = Len(s) THEN SubSeq(s, 1, Len(s) - 1)
    ELSE Collect([k \in 1..(Len(s) - 1) |-> IF k = i THEN s[Len(s)] ELSE s[k]],
                 Len(s) - 1)

\* Vec::remove
remove(s, i) == SubSeq(s, 1, i - 1) \o SubSeq(s, i + 1, Len(s))

\* the signed and the unsigned integers of the wire
I32 == (-(2 ^ (Bits - 1)))..(2 ^ (Bits - 1) - 1)
U32 == 0..(2 ^ Bits - 1)

\* a cast that keeps the number
as_same(x) == x

\* `x as u32` and `x as i32`: the same bits
as_u32(x) == x % (2 ^ Bits)
as_i32(x) == IF x % (2 ^ Bits) >= 2 ^ (Bits - 1)
             THEN (x % (2 ^ Bits)) - 2 ^ Bits
             ELSE x % (2 ^ Bits)

\* a constructor that takes every number
NonZeroI32_any(x) == Some(x)

\* NonZeroI32::new
NonZeroI32_new(x) == IF x = 0 THEN None ELSE Some(x)

\* integer division of the program: truncated towards zero (b # 0)
div(a, b) ==
    LET abs(x) == IF x < 0 THEN -x ELSE x
        q == IF b = 0 THEN 0 ELSE abs(a) \div abs(b)
    IN IF (a < 0) = (b < 0) THEN q ELSE -q

----------------------------------------------------------------------------
(* Wallpaper (design) *)

BgColor(c) == [kind |-> "Color", v |-> c]
BgImg(path) == [kind |-> "Img", v |-> path]

\* what the canvas holds: "black", a "color", or the "img" of a path (a blend
\* towards it, or a frame of the animation that came with it)
Canvas(src, v) == [src |-> src, v |-> v]

\* Scale::Whole and Scale::Fractional (a numerator over 120)
Whole(factor) == [kind |-> "Whole", v |-> factor]
Fractional(factor) == [kind |-> "Fractional", v |-> factor]

\* the logical dimensions of a mode under a scale and a transform: the mode
\* over the scale, width and height swapped by the 90 and 270 degree
\* transforms (1, 3, 5 and 7)
logical(mode, scale, transform) ==
    LET dim == IF scale.kind = "Whole"
               THEN <<div(mode[1], scale.v), div(mode[2], scale.v)>>
               ELSE <<div(mode[1] * 120, scale.v), div(mode[2] * 120, scale.v)>>
    IN IF transform % 2 = 1 THEN <<dim[2], dim[1]>> ELSE dim

\* Wallpaper::new: unconfigured, black, nothing in flight
Wallpaper_new ==
    [configured |-> FALSE,
     dim |-> <<1, 1>>,
     staging |-> <<1, 1>>,
     scale |-> Whole(1),
     transform |-> 0,
     img |-> BgColor(0),
     canvas |-> Canvas("black", 0),
     released |-> TRUE,
     callback |-> FALSE]

get_dimensions(w) == w.dim
set_dimensions(w, dim) == [w EXCEPT !.staging = dim]
set_scale(w, scale) == [w EXCEPT !.scale = scale]
set_transform(w, transform) == [w EXCEPT !.transform = transform]
set_img_info(w, bg) == [w EXCEPT !.img = bg]
has_name(id, n) == n = id
is_draw_ready(w) == w.configured /\ w.released /\ ~w.callback
clear(w, color) == [w EXCEPT !.canvas = Canvas("color", color)]
frame_callback_completed(w) == [w EXCEPT !.callback = FALSE]
try_set_buffer_release_flag(w) == [w EXCEPT !.released = TRUE]

\* commit_surface_changes: <<the wallpaper, "invalidates in-flight animations">>
commit_surface_changes(w) ==
    LET dim == logical(w.staging, w.scale, w.transform) IN
    IF w.configured /\ dim = w.dim
    THEN <<w, FALSE>>
    ELSE <<[w EXCEPT !.configured = TRUE, !.dim = dim,
                     !.canvas = Canvas("black", 0)], TRUE>>

\* attach_buffers_and_damage_surfaces then commit_wallpapers: the buffer goes
\* to the compositor and a frame callback is requested
commit_wallpapers(h, ws) ==
    Collect([w \in Ids |-> IF w \in Range(ws)
                           THEN [h[w] EXCEPT !.released = FALSE, !.callback = TRUE]
                           ELSE h[w]],
            MaxOutputs)

----------------------------------------------------------------------------
(* Transition (design): progress advances one step per execute; a wallpaper *)
(* whose canvas cannot be acquired is skipped and retried on the next call; *)
(* the transition is finished once progress is complete and every canvas    *)
(* was written at that progress.                                            *)

\* Transition::execute: <<the wallpapers, the new progress, finished>>
Transition_execute(h, t, results) ==
    LET p1 == Min(t.progress + 1, TransitionSteps)
        h1 == Collect([w \in Ids |->
                         IF w \in Range(t.wallpapers) /\ results[w] = "Ok"
                         THEN [h[w] EXCEPT !.canvas = Canvas("img", t.img.path)]
                         ELSE h[w]],
                      MaxOutputs)
        done == /\ p1 = TransitionSteps
                /\ \A w \in Range(t.wallpapers) : results[w] = "Ok"
    IN <<h1, p1, done>>

----------------------------------------------------------------------------
(* TransitionAnimator *)

\* TransitionAnimator::new: <<the wallpapers, Option<TransitionAnimator>>>
TransitionAnimator_new(h, ws, fps, img_req, animation) ==
    IF ws = <<>> THEN <<h, None>>
    ELSE
      LET h1 == Collect([w \in Ids |->
                           IF w \in Range(ws)
                           THEN set_img_info(h[w], BgImg(img_req.path))
                           ELSE h[w]],
                        MaxOutputs)
          expect == get_dimensions(h1[ws[1]])
      IN IF img_req.dim # expect THEN <<h1, None>>
         ELSE <<h1, Some([wallpapers |-> ws,
                          fps |-> fps,
                          progress |-> 0,
                          img |-> img_req,
                          animation |-> animation,
                          elapsed |-> 0,
                          over |-> FALSE])>>

TransitionAnimator_time_to_draw(t) == saturating_sub(t.fps, t.elapsed)

TransitionAnimator_updt_time(t) == [t EXCEPT !.elapsed = 0]

\* a frame() that returns what execute returned
TransitionAnimator_frame_eager(h, t, results) ==
    LET ex == Transition_execute(h, t, results)
    IN <<ex[1], [t EXCEPT !.progress = ex[2], !.over = ex[3]], ex[3]>>

\* TransitionAnimator::frame: <<the wallpapers, the animator, the result>>
TransitionAnimator_frame(h, t, results) ==
    IF ~t.over
    THEN LET ex == Transition_execute(h, t, results)
         IN <<ex[1], [t EXCEPT !.progress = ex[2], !.over = ex[3]], FALSE>>
    ELSE <<h, t, TRUE>>

\* a promotion that drops the animation
into_image_animator_none(t) == None

\* TransitionAnimator::into_image_animator
into_image_animator(t) ==
    IF t.animation = None THEN None
    ELSE Some([elapsed |-> 0,
               wallpapers |-> t.wallpapers,
               animation |-> t.animation[1],
               i |-> 0,
               path |-> t.img.path,
               calls |-> 0,
               timed |-> -1,
               decoded |-> -1,
               removed |-> FALSE])

----------------------------------------------------------------------------
(* ImageAnimator.  `path` is the image the animation came with; `calls`     *)
(* counts the frame() calls made on the animator; `decoded` is the position *)
(* in the frame sequence that the last frame() decoded, `timed` the         *)
(* position whose duration the time_to_draw before that call used, and      *)
(* `removed` tells that some frame() call removed a wallpaper.              *)

frames(a) == a.animation.animation

\* indexing animation[i % len] panics on an empty sequence
ImageAnimator_panics(a) == Len(frames(a)) = 0

ImageAnimator_position(a) == a.i % Len(frames(a))

ImageAnimator_time_to_draw(a) ==
    saturating_sub(frames(a)[ImageAnimator_position(a) + 1][2], a.elapsed)

ImageAnimator_updt_time(a) == [a EXCEPT !.elapsed = 0]

\* the while loop of ImageAnimator::frame from index j on:
\* <<the wallpapers, the animator's wallpaper list>>
RECURSIVE frame_loop(_, _, _, _, _, _)
frame_loop(h, ws, j, frame, path, results) ==
    IF j > Len(ws) THEN <<h, ws>>
    ELSE IF results[ws[j]] # "Ok"
         THEN frame_loop(h, swap_remove(ws, j), j, frame, path, results)
         ELSE frame_loop([h EXCEPT ![ws[j]].canvas = Canvas("img", path)],
                         ws, j + 1, frame, path, results)

\* a frame() that keeps the index within the sequence
ImageAnimator_frame_modulo(h, a, results) ==
    LET pos == ImageAnimator_position(a)
        frame == frames(a)[pos + 1][1]
        r == frame_loop(h, a.wallpapers, 1, frame, a.path, results)
    IN <<r[1], [a EXCEPT !.wallpapers = r[2],
                         !.i = (a.i + 1) % Len(frames(a)),
                         !.decoded = pos,
                         !.removed = @ \/ r[2] # a.wallpapers]>>

\* a frame() that does not advance when it removed a wallpaper
ImageAnimator_frame_stall(h, a, results) ==
    LET pos == ImageAnimator_position(a)
        frame == frames(a)[pos + 1][1]
        r == frame_loop(h, a.wallpapers, 1, frame, a.path, results)
    IN <<r[1], [a EXCEPT !.wallpapers = r[2],
                         !.i = IF r[2] # a.wallpapers THEN a.i ELSE a.i + 1,
                         !.decoded = pos,
                         !.removed = @ \/ r[2] # a.wallpapers]>>

\* ImageAnimator::frame: <<the wallpapers, the animator>>
ImageAnimator_frame(h, a, results) ==
    LET pos == ImageAnimator_position(a)
        frame == frames(a)[pos + 1][1]
        r == frame_loop(h, a.wallpapers, 1, frame, a.path, results)
    IN <<r[1], [a EXCEPT !.wallpapers = r[2],
                         !.i = a.i + 1,
                         !.decoded = pos,
                         !.removed = @ \/ r[2] # a.wallpapers]>>

----------------------------------------------------------------------------
(* Daemon.  The operators below act on a record d of the Daemon's fields    *)
(* together with the wallpapers behind its Rc's, a flag `panicked` that is  *)
(* set when the thread panics, and the list `promoted` of the animators     *)
(* whose frame() returned true in a draw pass, each with what               *)
(* into_image_animator made of it.  The record also carries what an         *)
(* iteration of the loop lets out: the flag `exit` (EXIT), the `answer`     *)
(* sent to the client, the `errors` logged with error!, and `pass`, the     *)
(* account of its last draw pass: the number of the draw passes so far, the *)
(* animators the pass drew, each with the readiness of its wallpapers and   *)
(* its time_to_draw when the pass came to it, and the animators it skipped, *)
(* each as it was then, with its wallpapers.                                *)

NoAnswer == [kind |-> "None", ping |-> FALSE, info |-> <<>>]
AnswerOk == [NoAnswer EXCEPT !.kind = "Ok"]
AnswerPing(b) == [NoAnswer EXCEPT !.kind = "Ping", !.ping = b]
AnswerInfo(i) == [NoAnswer EXCEPT !.kind = "Info", !.info = i]

NoPass == [runs |-> 0, drawn |-> <<>>, skipped |-> <<>>]

Daemon == [wallpapers |-> wallpapers,
           wp |-> wp,
           transition_animators |-> transition_animators,
           image_animators |-> image_animators,
           poll_time |-> poll_time,
           panicked |-> FALSE,
           promoted |-> <<>>,
           exit |-> EXIT,
           answer |-> NoAnswer,
           errors |-> {},
           pass |-> NoPass]

\* error!(..)
error(d, msg) == [d EXCEPT !.errors = @ \cup {msg}]

\* exit_daemon
exit_daemon(d) == [d EXCEPT !.exit = TRUE]

\* a test of EXIT that never sees it set
never_exit(flag) == FALSE

\* should_daemon_exit
should_daemon_exit(flag) == flag

\* Daemon::find_wallpapers_by_names; names is the set of the names in the list
find_wallpapers_by_names(d, names) ==
    SelectSeq(d.wallpapers,
              LAMBDA w : names = {} \/ \E n \in names : has_name(w, n))

\* a retain that keeps every wallpaper
retain_all(a, ws) == a

\* Vec::retain on the wallpaper list of an animator (Wallpaper::eq is identity)
retain_others(a, ws) ==
    [a EXCEPT !.wallpapers = SelectSeq(@, LAMBDA w1 : ~(\E w2 \in ws : w1 = w2))]

not_empty(a) == a.wallpapers # <<>>

touches(a, ws) == \E w \in Range(a.wallpapers) : w \in ws

\* a stop_animations that drops every animator that holds one of ws
stop_animations_whole(d, ws) ==
    [d EXCEPT !.transition_animators = SelectSeq(@, LAMBDA a : ~touches(a, ws)),
              !.image_animators = SelectSeq(@, LAMBDA a : ~touches(a, ws))]

\* a stop_animations that leaves the image animators alone
stop_animations_transitions(d, ws) ==
    LET ta == Collect([k \in 1..Len(d.transition_animators) |->
                         retain_others(d.transition_animators[k], ws)],
                      Len(d.transition_animators))
    IN [d EXCEPT !.transition_animators = SelectSeq(ta, not_empty)]

\* Daemon::stop_animations; ws is the set of the wallpapers in the slice
stop_animations(d, ws) ==
    LET ta == Collect([k \in 1..Len(d.transition_animators) |->
                         retain_others(d.transition_animators[k], ws)],
                      Len(d.transition_animators))
        ia == Collect([k \in 1..Len(d.image_animators) |->
                         retain_others(d.image_animators[k], ws)],
                      Len(d.image_animators))
    IN [d EXCEPT !.transition_animators = SelectSeq(ta, not_empty),
                 !.image_animators = SelectSeq(ia, not_empty)]

\* a readiness test that passes every animator
always_ready(d, a) == TRUE

all_draw_ready(d, a) == \A w \in Range(a.wallpapers) : is_draw_ready(d.wp[w])

\* a test of the time to draw that lets every animator wait
never_due(time) == TRUE

\* time > Duration::from_micros(1200)
not_due(time) == time > DrawThreshold

\* the account of an animator a draw pass comes to: its readiness and, when
\* it is ready, its time to draw (-1 otherwise)
seen(d, kind, a, path, time) ==
    [kind |-> kind,
     path |-> path,
     animator |-> a,
     wps |-> Collect([k \in 1..Len(a.wallpapers) |-> d.wp[a.wallpapers[k]]],
                     Len(a.wallpapers)),
     ready |-> \A w \in Range(a.wallpapers) : is_draw_ready(d.wp[w]),
     time |-> time]

drawn(d, kind, a, path, time) ==
    [d EXCEPT !.pass.drawn = Append(@, seen(d, kind, a, path, time))]

skipped(d, kind, a, path, time) ==
    [d EXCEPT !.pass.skipped = Append(@, seen(d, kind, a, path, time))]

\* spin_sleep(time): the time passes for every animator
later(a, time) == [a EXCEPT !.elapsed = Min(@ + time, MaxElapsed)]

spin_sleep(d, time) ==
    [d EXCEPT !.transition_animators =
                  Collect([k \in 1..Len(@) |-> later(@[k], time)], Len(@)),
              !.image_animators =
                  Collect([k \in 1..Len(@) |-> later(@[k], time)], Len(@))]

\* the first loop of Daemon::draw, from index i on
RECURSIVE draw_transitions(_, _, _)
draw_transitions(d, i, results) ==
    IF i > Len(d.transition_animators) THEN d
    ELSE
      LET animator == d.transition_animators[i]
          path == animator.img.path
      IN
      IF all_draw_ready(d, animator)
      THEN
        LET time == TransitionAnimator_time_to_draw(animator) IN
        IF not_due(time)
        THEN draw_transitions(
               [skipped(d, "transition", animator, path, time)
                  EXCEPT !.poll_time = 1],
               i + 1, results)
        ELSE
          LET d1 == spin_sleep(drawn(d, "transition", animator, path, time), time)
              h1 == commit_wallpapers(d1.wp, animator.wallpapers)
              a1 == TransitionAnimator_updt_time(d1.transition_animators[i])
              fr == TransitionAnimator_frame(h1, a1, results)
          IN IF fr[3]
             THEN draw_transitions(
                    [d1 EXCEPT !.wp = fr[1],
                               !.transition_animators = swap_remove(@, i),
                               !.image_animators = @ \o into_image_animator(fr[2]),
                               !.promoted = Append(@,
                                   [animator |-> fr[2],
                                    into |-> into_image_animator(fr[2])])],
                    i, results)
             ELSE draw_transitions(
                    [d1 EXCEPT !.wp = fr[1],
                               !.transition_animators[i] = fr[2]],
                    i + 1, results)
      ELSE draw_transitions(skipped(d, "transition", animator, path, -1),
                            i + 1, results)

\* the second loop of Daemon::draw, from index k on
RECURSIVE draw_images(_, _, _)
draw_images(d, k, results) ==
    IF k > Len(d.image_animators) THEN d
    ELSE
      LET animator == d.image_animators[k]
          path == animator.path
      IN
      IF all_draw_ready(d, animator)
      THEN
        IF ImageAnimator_panics(animator)
        THEN [d EXCEPT !.panicked = TRUE]
        ELSE
          LET time == ImageAnimator_time_to_draw(animator) IN
          IF not_due(time)
          THEN draw_images(
                 [skipped(d, "image", animator, path, time)
                    EXCEPT !.poll_time = 1],
                 k + 1, results)
          ELSE
            LET d1 == spin_sleep(drawn(d, "image", animator, path, time), time)
                h1 == commit_wallpapers(d1.wp, animator.wallpapers)
                a1 == [ImageAnimator_updt_time(d1.image_animators[k])
                         EXCEPT !.timed = ImageAnimator_position(animator),
                                !.calls = @ + 1]
                fr == ImageAnimator_frame(h1, a1, results)
                d2 == IF fr[2].wallpapers # a1.wallpapers
                      THEN error(d1, "failed to unpack frame")
                      ELSE d1
            IN draw_images([d2 EXCEPT !.wp = fr[1], !.image_animators[k] = fr[2]],
                           k + 1, results)
      ELSE draw_images(skipped(d, "image", animator, path, -1), k + 1, results)

\* a draw pass that leaves poll_time as it finds it
draw_keep(d, results) ==
    LET d0 == [d EXCEPT !.pass = [NoPass EXCEPT !.runs = d.pass.runs + 1]]
        d1 == draw_transitions(d0, 1, results)
        d2 == [d1 EXCEPT !.image_animators = SelectSeq(@, not_empty)]
    IN draw_images(d2, 1, results)

\* Daemon::draw
draw(d, results) ==
    LET d0 == [d EXCEPT !.poll_time = -1,
                        !.pass = [NoPass EXCEPT !.runs = d.pass.runs + 1]]
        d1 == draw_transitions(d0, 1, results)
        d2 == [d1 EXCEPT !.image_animators = SelectSeq(@, not_empty)]
    IN draw_images(d2, 1, results)

----------------------------------------------------------------------------
(* Requests *)

Animation(id, n) ==
    [id |-> id, animation |-> Collect([k \in 1..n |-> <<k, k * FrameUnit>>], n)]

ImgReq(path, dim) == [path |-> path, dim |-> dim]

\* image k of the request number req has the path path_of(req, k)
path_of(req, k) == req * 10 + k
request_of(path) == path \div 10
index_of(path) == path % 10

pop(s) == SubSeq(s, 1, Len(s) - 1)

\* RequestRecv::Clear
recv_clear(d, color, names) ==
    LET ws == find_wallpapers_by_names(d, names)
        d1 == stop_animations(d, Range(ws))
        h1 == Collect([w \in Ids |->
                         IF w \in Range(ws)
                         THEN clear(set_img_info(d1.wp[w], BgColor(color)), color)
                         ELSE d1.wp[w]],
                      MaxOutputs)
    IN [d1 EXCEPT !.wp = commit_wallpapers(h1, ws)]

\* RequestRecv::Img: the while loop
RECURSIVE recv_img(_, _, _, _, _)
recv_img(d, imgs, outputs, animations, results) ==
    IF imgs = <<>> \/ outputs = <<>> THEN d
    ELSE
      LET names == outputs[Len(outputs)]
          img == imgs[Len(imgs)]
          animation == IF animations # None /\ animations[1] # <<>>
                       THEN Some(animations[1][Len(animations[1])])
                       ELSE None
          rest == IF animations # None /\ animations[1] # <<>>
                  THEN Some(pop(animations[1]))
                  ELSE animations
          ws == find_wallpapers_by_names(d, names)
          d1 == stop_animations(d, Range(ws))
          new == TransitionAnimator_new(d1.wp, ws, FramePeriod, img, animation)
          d2 == IF new[2] # None
                THEN LET fr == TransitionAnimator_frame(new[1], new[2][1], results)
                     IN [d1 EXCEPT !.wp = fr[1],
                                   !.transition_animators = Append(@, fr[2])]
                ELSE IF ws # <<>>
                     THEN error([d1 EXCEPT !.wp = new[1]],
                                "image has wrong dimensions")
                     ELSE d1
      IN recv_img([d2 EXCEPT !.poll_time = 0],
                  pop(imgs), pop(outputs), rest, results)

\* Daemon::wallpapers_info
wallpapers_info(d) ==
    Collect([k \in 1..Len(d.wallpapers) |->
               [name |-> d.wallpapers[k], img |-> d.wp[d.wallpapers[k]].img]],
            Len(d.wallpapers))

\* a test that one wallpaper is configured
some_configured(d) == \E w \in Range(d.wallpapers) : d.wp[w].configured

\* self.wallpapers.iter().all(|w| w.borrow().configured.load(..))
all_configured(d) == \A w \in Range(d.wallpapers) : d.wp[w].configured

\* the requests a client sends
RequestClear(color, names) == [kind |-> "Clear", color |-> color, names |-> names]
RequestPing == [kind |-> "Ping"]
RequestKill == [kind |-> "Kill"]
RequestQuery == [kind |-> "Query"]
RequestImg(imgs, outputs, animations) ==
    [kind |-> "Img", imgs |-> imgs, outputs |-> outputs, animations |-> animations]

\* answer.send(&stream)
send(d, a) == [d EXCEPT !.answer = a]

\* a read of the socket that is taken to succeed
read_any(read) == TRUE

\* utils::ipc::read_socket: Ok(bytes) or Err(e)
read_ok(read) == read = "Ok"

\* Daemon::recv_socket_msg; read is the outcome of read_socket
recv_socket_msg(d, read, request, results) ==
    IF ~read_ok(read)
    THEN exit_daemon(error(d, "FATAL: cannot read socket"))
    ELSE CASE request.kind = "Clear" ->
                send(recv_clear(d, request.color, request.names), AnswerOk)
           [] request.kind = "Ping" ->
                send(d, AnswerPing(all_configured(d)))
           [] request.kind = "Kill" ->
                send(exit_daemon(d), AnswerOk)
           [] request.kind = "Query" ->
                send(d, AnswerInfo(wallpapers_info(d)))
           [] request.kind = "Img" ->
                send(recv_img(d, request.imgs, request.outputs,
                              request.animations, results), AnswerOk)

----------------------------------------------------------------------------
(* Wayland events *)

\* Daemon::new_output
new_output(d, output_name) ==
    [d EXCEPT !.wallpapers = Append(@, output_name),
              !.wp[output_name] = Wallpaper_new]

\* wl_registry::EvHandler::global_remove
global_remove(d, name) ==
    IF name \in Range(d.wallpapers)
    THEN LET i == CHOOSE k \in 1..Len(d.wallpapers) : d.wallpapers[k] = name
         IN stop_animations([d EXCEPT !.wallpapers = remove(@, i)], {name})
    ELSE d

\* wl_output::EvHandler::mode
output_mode(d, sender, dim) ==
    IF sender \in Range(d.wallpapers)
    THEN [d EXCEPT !.wp[sender] = set_dimensions(@, dim)]
    ELSE d

\* wl_output::EvHandler::geometry
output_geometry(d, sender, transform) ==
    IF sender \in Range(d.wallpapers)
    THEN IF as_u32(transform) > FLIPPED_270
         THEN error(d, "received invalid transform value from compositor")
         ELSE [d EXCEPT !.wp[sender] = set_transform(@, as_u32(transform))]
    ELSE d

\* wl_output::EvHandler::scale
output_scale(d, sender, factor) ==
    IF sender \in Range(d.wallpapers)
    THEN LET nz == NonZeroI32_new(factor) IN
         IF nz # None
         THEN [d EXCEPT !.wp[sender] = set_scale(@, Whole(nz[1]))]
         ELSE error(d, "received scale factor of 0 from compositor")
    ELSE d

\* wl_surface::EvHandler::preferred_buffer_scale
preferred_buffer_scale(d, sender, factor) ==
    IF sender \in Range(d.wallpapers)
    THEN LET nz == NonZeroI32_new(factor) IN
         IF nz # None
         THEN [d EXCEPT !.wp[sender] = set_scale(@, Whole(nz[1]))]
         ELSE error(d, "received scale factor of 0 from compositor")
    ELSE d

\* wp_fractional_scale_v1::EvHandler::preferred_scale
preferred_scale(d, sender, scale) ==
    IF sender \in Range(d.wallpapers)
    THEN LET nz == NonZeroI32_new(as_i32(scale)) IN
         IF nz # None
         THEN LET c == commit_surface_changes(
                         set_scale(d.wp[sender], Fractional(nz[1])))
                  d1 == [d EXCEPT !.wp[sender] = c[1]]
              IN IF c[2] THEN stop_animations(d1, {sender}) ELSE d1
         ELSE error(d, "received scale factor of 0 from compositor")
    ELSE d

\* wl_output::EvHandler::done
output_done(d, sender) ==
    IF sender \in Range(d.wallpapers)
    THEN stop_animations([d EXCEPT !.wp[sender] = commit_surface_changes(@)[1]],
                         {sender})
    ELSE d

\* wl_buffer::EvHandler::release
buffer_release(d, sender) ==
    IF sender \in Range(d.wallpapers)
    THEN [d EXCEPT !.wp[sender] = try_set_buffer_release_flag(@)]
    ELSE d

\* wl_callback::EvHandler::done
callback_done(d, sender, results) ==
    IF sender \in Range(d.wallpapers)
    THEN draw([d EXCEPT !.wp[sender] = frame_callback_completed(@)], results)
    ELSE d

\* zwlr_layer_surface_v1::EvHandler::closed
layer_closed(d, sender) ==
    [d EXCEPT !.wallpapers = SelectSeq(@, LAMBDA w : w # sender)]


----------------------------------------------------------------------------
(* The inputs of the model *)

in_animator(d, w) ==
    \/ \E k \in 1..Len(d.transition_animators) :
         w \in Range(d.transition_animators[k].wallpapers)
    \/ \E k \in 1..Len(d.image_animators) :
         w \in Range(d.image_animators[k].wallpapers)

\* the wallpapers a draw pass on d can write to
drawable(d) == {w \in Ids : in_animator(d, w) /\ is_draw_ready(d.wp[w])}

\* An environment of the daemon: how many outputs the compositor advertises,
\* how many Clear/Img requests the clients send, the outcomes canvas_change
\* can have, the lengths of the imgs and outputs lists of an Img request, the
\* lengths of its animations list and the numbers of frames of its animations,
\* and whether an account is kept of what each iteration lets out (the
\* answer, the errors logged and the draw pass).

\* one output; every canvas_change can fail; requests for one image, with an
\* animation or none, of no frame or of MaxFrames frames
One == [outputs |-> 1,
        requests |-> MaxRequests,
        results |-> CanvasResults,
        lengths |-> {1},
        alengths |-> {0, 1},
        frames |-> {0, MaxFrames},
        account |-> TRUE]

\* several outputs; no canvas_change fails; requests for one image
Two == [outputs |-> MaxOutputs,
        requests |-> MaxRequests,
        results |-> {"Ok"},
        lengths |-> {1},
        alengths |-> {0, 1},
        frames |-> {MaxFrames},
        account |-> FALSE]

\* several outputs; every canvas_change can fail; one request, whose lists
\* have every length up to MaxImgs
Lists == [outputs |-> MaxOutputs,
          requests |-> 1,
          results |-> CanvasResults,
          lengths |-> 0..MaxImgs,
          alengths |-> 0..MaxImgs,
          frames |-> {MaxFrames},
          account |-> FALSE]

\* one output and one request for one image; no canvas_change fails
Faults == [outputs |-> 1,
           requests |-> 1,
           results |-> {"Ok"},
           lengths |-> {1},
           alengths |-> {0, 1},
           frames |-> {MaxFrames},
           account |-> TRUE]

\* several outputs and one request for one image, without an animation; no
\* canvas_change fails
Outputs == [outputs |-> MaxOutputs,
            requests |-> 1,
            results |-> {"Ok"},
            lengths |-> {1},
            alengths |-> {0},
            frames |-> {MaxFrames},
            account |-> TRUE]

\* several outputs and requests for one image; every canvas_change can fail
\* and an animation can be empty
Passes == [outputs |-> MaxOutputs,
           requests |-> MaxRequests,
           results |-> CanvasResults,
           lengths |-> {1},
           alengths |-> {0, 1},
           frames |-> {0, MaxFrames},
           account |-> TRUE]

\* the outcome of canvas_change on each wallpaper during one loop iteration;
\* only the wallpapers in ws are written to
Results(env, ws) ==
    {r \in [Ids -> env.results] : \A w \in Ids \ ws : r[w] = "Ok"}

SeqsOf(S, n) == [1..n -> S]

\* A request's lists.  recv_img reads the last `pairs` entries of imgs and of
\* outputs and at most as many of animations; the entries before them, which
\* it never reads, are fixed.
Padded(n, tail, x) ==
    Collect([k \in 1..n |-> IF k > n - Len(tail) THEN tail[k - (n - Len(tail))]
                             ELSE x], n)

ImgLists(req, n, pairs) ==
    {Collect([k \in 1..n |-> ImgReq(path_of(req, k), Padded(n, ds, <<1, 1>>)[k])],
             n) :
        ds \in SeqsOf(DimSet, pairs)}

\* a list of names is empty or names one output
NameLists == {{}} \cup {{n} : n \in Ids}

OutputLists(n, pairs) ==
    {Padded(n, gs, {}) : gs \in SeqsOf(NameLists, pairs)}

AnimationLists(env, n, pairs) ==
    {Collect([k \in 1..n |-> Animation(k, Padded(n, ns, MaxFrames)[k])], n) :
        ns \in SeqsOf(env.frames, Min(n, pairs))}

AnimationOptions(env, pairs) ==
    {None} \cup
    {Some(l) : l \in UNION {AnimationLists(env, n, pairs) : n \in env.alengths}}

\* the wallpapers the output lists of a request name
targets(d, outputs) ==
    UNION {Range(find_wallpapers_by_names(d, outputs[k])) : k \in 1..Len(outputs)}

----------------------------------------------------------------------------
(* The state machine.  A step is one iteration of main's loop: poll, the    *)
(* event or the request that poll reported, the draw pass that ends the     *)
(* iteration when poll_time > -1, and the test of EXIT.                     *)

Init ==
    /\ wallpapers = <<>>
    /\ wp = Collect([w \in Ids |-> Wallpaper_new], MaxOutputs)
    /\ transition_animators = <<>>
    /\ image_animators = <<>>
    /\ poll_time = -1
    /\ EXIT = FALSE
    /\ pc = "loop"
    /\ socket = TRUE
    /\ answer = NoAnswer
    /\ errors = {}
    /\ created = 0
    /\ reqCount = 0
    /\ pairCount = 0
    /\ promoted = <<>>
    /\ pass = NoPass

\* if daemon.poll_time > -1 { daemon.draw() }
loop_end(d, results) ==
    IF ~d.panicked /\ d.poll_time > -1 THEN draw(d, results) ELSE d

\* where main is after an iteration that came to `at`: "loop" (the end of the
\* loop's body), "retry" (a `continue`) or "failed" (a return of Err)
position(d, at) ==
    IF d.panicked THEN "panicked"
    ELSE IF at = "failed" THEN "failed"
    ELSE IF should_daemon_exit(d.exit) THEN "exited"
    ELSE at

\* the account of an iteration, where the environment keeps one
account(env, d) ==
    IF env.account THEN d
    ELSE [d EXCEPT !.answer = NoAnswer, !.errors = {}, !.pass = NoPass]

\* the iteration ends with the daemon as d; the listener is dropped, and the
\* socket's file removed, when main returns; whether a panic removes it
\* depends on the build (unwind or abort)
Store(d, at) ==
    /\ wallpapers' = d.wallpapers
    /\ wp' = d.wp
    /\ transition_animators' = d.transition_animators
    /\ image_animators' = d.image_animators
    /\ poll_time' = d.poll_time
    /\ promoted' = d.promoted
    /\ EXIT' = d.exit
    /\ answer' = d.answer
    /\ errors' = d.errors
    /\ pass' = d.pass
    /\ pc' = position(d, at)
    /\ socket' \in IF d.panicked THEN {socket, FALSE}
                   ELSE {position(d, at) \in {"loop", "retry"}}

\* the rest of an iteration whose handler left the daemon as d
Iterate(env, d) ==
    \E d0 \in {d} :
      \E results \in Results(env, IF d0.poll_time > -1 THEN drawable(d0) ELSE {}) :
        \E d1 \in {account(env, loop_end(d0, results))} : Store(d1, "loop")

\* the loop runs, and no ImageAnimator is past the bound on its frame() calls
Running ==
    /\ pc \in {"loop", "retry"}
    /\ \A k \in 1..Len(image_animators) : image_animators[k].calls < MaxIndex

\* poll timed out, or time passed before it returned
Tick(env) ==
    /\ Running
    /\ Iterate(env, spin_sleep(Daemon, TickStep))
    /\ UNCHANGED <<created, reqCount, pairCount>>

\* a signal (SIGINT, SIGQUIT, SIGTERM or SIGHUP) runs signal_handler while
\* the loop is past its test of EXIT
Signal(env) ==
    /\ Running
    /\ ~EXIT
    /\ EXIT' = TRUE
    /\ UNCHANGED <<wallpapers, wp, transition_animators, image_animators,
                   poll_time, pc, socket, answer, errors, created, reqCount,
                   pairCount, promoted, pass>>

\* the errors of poll and of wire::WireMsg::recv
Errnos == {"INTR", "BADF"}

\* a poll that returns Err(e)
poll_retry(errno) == "retry"
poll_error(errno) == IF errno = "INTR" THEN "retry" ELSE "failed"

\* a wire::WireMsg::recv that returns Err(e)
wire_error(errno) == IF errno = "INTR" THEN "retry" ELSE "failed"

PollError(env, errno) ==
    /\ Running
    /\ \E d1 \in {account(env, Daemon)} : Store(d1, poll_error(errno))
    /\ UNCHANGED <<created, reqCount, pairCount>>

WireError(env, errno) ==
    /\ Running
    /\ \E d1 \in {account(env, Daemon)} : Store(d1, wire_error(errno))
    /\ UNCHANGED <<created, reqCount, pairCount>>

Global(env) ==
    /\ Running
    /\ created < env.outputs
    /\ created' = created + 1
    /\ Iterate(env, new_output(Daemon, created + 1))
    /\ UNCHANGED <<reqCount, pairCount>>

GlobalRemove(env) ==
    /\ Running
    /\ \E name \in Range(wallpapers) :
         Iterate(env, global_remove(Daemon, name))
    /\ UNCHANGED <<created, reqCount, pairCount>>

\* the transform values the compositor sends (i32)
TransformInputs == {-1, FLIPPED_270, FLIPPED_270 + 1}

Geometry(env) ==
    /\ Running
    /\ \E sender \in Range(wallpapers), transform \in TransformInputs :
         Iterate(env, output_geometry(Daemon, sender, transform))
    /\ UNCHANGED <<created, reqCount, pairCount>>

Mode(env) ==
    /\ Running
    /\ \E sender \in Range(wallpapers), dim \in DimSet :
         /\ dim # wp[sender].staging
         /\ Iterate(env, output_mode(Daemon, sender, dim))
    /\ UNCHANGED <<created, reqCount, pairCount>>

OutputDone(env) ==
    /\ Running
    /\ \E sender \in Range(wallpapers) :
         Iterate(env, output_done(Daemon, sender))
    /\ UNCHANGED <<created, reqCount, pairCount>>

\* the scale factors the compositor sends (i32)
FactorInputs == {-1, 0, 2}

Scale(env) ==
    /\ Running
    /\ \E sender \in Range(wallpapers), factor \in FactorInputs :
         Iterate(env, output_scale(Daemon, sender, factor))
    /\ UNCHANGED <<created, reqCount, pairCount>>

PreferredBufferScale(env) ==
    /\ Running
    /\ \E sender \in Range(wallpapers), factor \in FactorInputs :
         Iterate(env, preferred_buffer_scale(Daemon, sender, factor))
    /\ UNCHANGED <<created, reqCount, pairCount>>

\* the fractional scales the compositor sends (u32, a numerator over 120)
ScaleInputs == {0, 120, 2 ^ (Bits - 1)}

PreferredScale(env) ==
    /\ Running
    /\ \E sender \in Range(wallpapers), scale \in ScaleInputs :
         Iterate(env, preferred_scale(Daemon, sender, scale))
    /\ UNCHANGED <<created, reqCount, pairCount>>

Release(env) ==
    /\ Running
    /\ \E sender \in Range(wallpapers) :
         /\ ~wp[sender].released
         /\ Iterate(env, buffer_release(Daemon, sender))
    /\ UNCHANGED <<created, reqCount, pairCount>>

\* the handler's draw pass and the one that ends the iteration
callback_iteration(d, sender, results) ==
    loop_end(callback_done(d, sender, results), results)

CallbackDone(env) ==
    /\ Running
    /\ \E sender \in Range(wallpapers) :
         /\ wp[sender].callback
         /\ \E results \in Results(env, drawable(
                  [Daemon EXCEPT !.wp[sender] = frame_callback_completed(@)])) :
              \E d1 \in {account(env, callback_iteration(Daemon, sender,
                                                            results))} :
                Store(d1, "loop")
    /\ UNCHANGED <<created, reqCount, pairCount>>

\* the compositor presents the frame of a surface: the release of its buffer
\* and then its frame callback, in two iterations without another event
\* between them
Present(env) ==
    /\ Running
    /\ \E sender \in Range(wallpapers) :
         /\ wp[sender].callback
         /\ \E d0 \in {buffer_release(Daemon, sender)} :
              \E results \in Results(env, drawable(
                    [d0 EXCEPT !.wp[sender] = frame_callback_completed(@)])) :
                \E d1 \in {account(env, callback_iteration(
                             [loop_end(d0, results) EXCEPT !.pass = NoPass],
                             sender, results))} :
                  Store(d1, "loop")
    /\ UNCHANGED <<created, reqCount, pairCount>>

Closed(env) ==
    /\ Running
    /\ \E sender \in Range(wallpapers) :
         Iterate(env, layer_closed(Daemon, sender))
    /\ UNCHANGED <<created, reqCount, pairCount>>

Clear(env, color, names) ==
    /\ Running
    /\ reqCount < env.requests
    /\ Iterate(env, recv_socket_msg(Daemon, "Ok", RequestClear(color, names),
                                    Collect([w \in Ids |-> "Ok"], MaxOutputs)))
    /\ reqCount' = reqCount + 1
    /\ UNCHANGED <<created, pairCount>>

Ping(env) ==
    /\ Running
    /\ Iterate(env, recv_socket_msg(Daemon, "Ok", RequestPing,
                                    Collect([w \in Ids |-> "Ok"], MaxOutputs)))
    /\ UNCHANGED <<created, reqCount, pairCount>>

Kill(env) ==
    /\ Running
    /\ Iterate(env, recv_socket_msg(Daemon, "Ok", RequestKill,
                                    Collect([w \in Ids |-> "Ok"], MaxOutputs)))
    /\ UNCHANGED <<created, reqCount, pairCount>>

Query(env) ==
    /\ Running
    /\ Iterate(env, recv_socket_msg(Daemon, "Ok", RequestQuery,
                                    Collect([w \in Ids |-> "Ok"], MaxOutputs)))
    /\ UNCHANGED <<created, reqCount, pairCount>>

\* read_socket fails on the accepted connection
ReadFailure(env) ==
    /\ Running
    /\ Iterate(env, recv_socket_msg(Daemon, "Err", RequestPing,
                                    Collect([w \in Ids |-> "Ok"], MaxOutputs)))
    /\ UNCHANGED <<created, reqCount, pairCount>>

Img(env, imgs, outputs, animations, results) ==
    /\ Running
    /\ reqCount < env.requests
    /\ pairCount + Min(Len(imgs), Len(outputs)) <= MaxPairs
    /\ results \in Results(env, targets(Daemon, outputs) \cup drawable(Daemon))
    /\ \E d1 \in {account(env, loop_end(
                     recv_socket_msg(Daemon, "Ok",
                                     RequestImg(imgs, outputs, animations),
                                     results),
                     results))} : Store(d1, "loop")
    /\ reqCount' = reqCount + 1
    /\ pairCount' = pairCount + Min(Len(imgs), Len(outputs))
    /\ UNCHANGED created

\* a Clear request arrives on the socket
ClearRequest(env) ==
    /\ Running
    /\ reqCount < env.requests
    /\ \E color \in Colors, names \in NameLists : Clear(env, color, names)

\* an Img request arrives on the socket
ImgRequest(env) ==
    /\ Running
    /\ reqCount < env.requests
    /\ \E li \in env.lengths, lo \in env.lengths :
         /\ pairCount + Min(li, lo) <= MaxPairs
         /\ \E imgs \in ImgLists(reqCount + 1, li, Min(li, lo)),
               outputs \in OutputLists(lo, Min(li, lo)),
               animations \in AnimationOptions(env, Min(li, lo)),
               results \in [Ids -> env.results] :
              Img(env, imgs, outputs, animations, results)

\* one output, every event and every request
Next ==
    \/ Tick(One)
    \/ Global(One)
    \/ GlobalRemove(One)
    \/ Mode(One)
    \/ OutputDone(One)
    \/ Release(One)
    \/ CallbackDone(One)
    \/ Closed(One)
    \/ ClearRequest(One)
    \/ Ping(One)
    \/ Kill(One)
    \/ Query(One)
    \/ ImgRequest(One)

Spec == Init /\ [][Next]_vars

\* several outputs that stay, and requests for one group of outputs
NextGroups ==
    \/ Tick(Two)
    \/ Global(Two)
    \/ Mode(Two)
    \/ OutputDone(Two)
    \/ Present(Two)
    \/ ClearRequest(Two)
    \/ Query(Two)
    \/ ImgRequest(Two)

SpecGroups == Init /\ [][NextGroups]_vars

\* several outputs that stay, and one request with lists of every length
NextLists ==
    \/ Tick(Lists)
    \/ Global(Lists)
    \/ Mode(Lists)
    \/ OutputDone(Lists)
    \/ Present(Lists)
    \/ Query(Lists)
    \/ ImgRequest(Lists)

SpecLists == Init /\ [][NextLists]_vars

\* one output and one request, with the signals and the failures of poll,
\* of the wire and of the socket
NextFaults ==
    \/ Tick(Faults)
    \/ Global(Faults)
    \/ OutputDone(Faults)
    \/ Release(Faults)
    \/ CallbackDone(Faults)
    \/ ImgRequest(Faults)
    \/ Ping(Faults)
    \/ Kill(Faults)
    \/ Signal(Faults)
    \/ \E errno \in Errnos : PollError(Faults, errno)
    \/ \E errno \in Errnos : WireError(Faults, errno)
    \/ ReadFailure(Faults)

SpecFaults == Init /\ [][NextFaults]_vars

\* several outputs whose geometry and scale the compositor reports, and one
\* request
NextOutputs ==
    \/ Global(Outputs)
    \/ Geometry(Outputs)
    \/ Scale(Outputs)
    \/ PreferredBufferScale(Outputs)
    \/ PreferredScale(Outputs)
    \/ OutputDone(Outputs)
    \/ ImgRequest(Outputs)

SpecOutputs == Init /\ [][NextOutputs]_vars

\* several outputs that stay, the passing of time, the compositor's releases
\* and frame callbacks, and Img requests: the draw passes, with their account
NextPasses ==
    \/ Tick(Passes)
    \/ Global(Passes)
    \/ OutputDone(Passes)
    \/ Release(Passes)
    \/ CallbackDone(Passes)
    \/ ImgRequest(Passes)

SpecPasses == Init /\ [][NextPasses]_vars

----------------------------------------------------------------------------
(* ImageAnimator::frame alone: calls of frame() on one animator, over every *)
(* wallpaper list and every outcome of canvas_change on each wallpaper.     *)

\* the outcomes of Wallpaper::canvas_change (design): the closure ran and
\* succeeded, no writable buffer was available, or the closure failed to
\* decode
CanvasOutcomes == {"Ok", "BufferUnavailable", "DecodeError"}

\* the wallpaper lists of an animator: at most two wallpapers, none twice
WallpaperLists ==
    {<<>>} \cup {<<w>> : w \in Ids}
           \cup {<<p[1], p[2]>> : p \in {q \in Ids \X Ids : q[1] # q[2]}}

InitFrame ==
    /\ wallpapers = Collect([w \in Ids |-> w], MaxOutputs)
    /\ wp = Collect([w \in Ids |-> [Wallpaper_new EXCEPT !.configured = TRUE]],
                    MaxOutputs)
    /\ transition_animators = <<>>
    /\ image_animators \in
         {<<[elapsed |-> 0,
             wallpapers |-> ws,
             animation |-> Animation(k, n),
             i |-> 0,
             path |-> path_of(1, k),
             calls |-> 0,
             timed |-> -1,
             decoded |-> -1,
             removed |-> FALSE]>> :
              ws \in WallpaperLists, n \in 1..MaxFrames, k \in 1..MaxImgs}
    /\ poll_time = -1
    /\ EXIT = FALSE
    /\ pc = "loop"
    /\ socket = TRUE
    /\ answer = NoAnswer
    /\ errors = {}
    /\ created = MaxOutputs
    /\ reqCount = 1
    /\ pairCount = 1
    /\ promoted = <<>>
    /\ pass = NoPass

\* animator.frame(), the canvas_change on wallpaper w giving results[w]
FrameCall(results) ==
    /\ image_animators[1].calls < MaxIndex
    /\ LET a == [image_animators[1] EXCEPT !.calls = @ + 1]
           fr == ImageAnimator_frame(wp, a, results)
       IN /\ wp' = fr[1]
          /\ image_animators' = <<fr[2]>>
    /\ UNCHANGED <<wallpapers, transition_animators, poll_time, EXIT, pc,
                   socket, answer, errors, created, reqCount, pairCount,
                   promoted, pass>>

NextFrame == \E results \in [Ids -> CanvasOutcomes] : FrameCall(results)

SpecFrame == InitFrame /\ [][NextFrame]_vars

----------------------------------------------------------------------------
(* The threaded Animator (animations/mod.rs, Animator).  A call of          *)
(* Animator::transition starts a spawner thread; its first scope runs one   *)
(* transition worker per (img, wallpapers) pair, its second scope one       *)
(* animation worker per (animation, wallpapers) pair.  Here `pc` is the     *)
(* list of the spawners, one per call, each with its position, its request, *)
(* the wallpaper groups it owns, and the wallpapers it found being animated *)
(* when it was made; `transition_animators` is the list of                  *)
(* the transition workers and `image_animators` that of the animation       *)
(* workers, each with the call and the group it was spawned for.  The       *)
(* wallpapers carry their animation token (design).                         *)

\* a wallpaper behind an Arc, with its token counter
Wallpaper_arc ==
    [configured |-> TRUE,
     dim |-> <<1, 1>>,
     staging |-> <<1, 1>>,
     scale |-> Whole(1),
     transform |-> 0,
     img |-> BgColor(0),
     canvas |-> Canvas("black", 0),
     released |-> TRUE,
     callback |-> FALSE,
     animation_token |-> 0]

\* create_animation_token (design): issue the next token of the wallpaper
create_animation_token(w) == [w EXCEPT !.animation_token = @ + 1]

\* has_animation_id (design): the token is the latest one issued
has_animation_id(w, token) == w.animation_token = token

\* barrier.wait(tolerance) (design): returns once every worker has arrived or
\* the tolerance has passed since the first arrival, so it always returns
barrier_wait(workers, k) == TRUE

\* the groups of a call: one list, of no, one or two wallpapers, or two lists
\* of one wallpaper each
GroupLists ==
    {<< <<>> >>, << <<1>> >>, << <<1, 2>> >>, << <<1>>, <<2>> >>}

\* the animations of a call with n groups: none, or one per group, of one
\* frame or of MaxFrames frames
AnimationChoices(req, n) ==
    {None} \cup
    {Some(Collect([k \in 1..n |-> Animation(path_of(req, k), ns[k])], n)) :
        ns \in SeqsOf({1, MaxFrames}, n)}

\* the transition workers find their canvases writable
TransitionResults == [Ids -> {"Ok"}]

InitAnimator ==
    /\ wallpapers = Collect([w \in Ids |-> w], MaxOutputs)
    /\ wp = Collect([w \in Ids |-> Wallpaper_arc], MaxOutputs)
    /\ transition_animators = <<>>
    /\ image_animators = <<>>
    /\ poll_time = -1
    /\ EXIT = FALSE
    /\ pc = <<>>
    /\ socket = TRUE
    /\ answer = NoAnswer
    /\ errors = {}
    /\ created = MaxOutputs
    /\ reqCount = 0
    /\ pairCount = 0
    /\ promoted = <<>>
    /\ pass = NoPass

\* the group a worker was spawned for, as its spawner holds it now
group(worker) == pc[worker.req].wallpapers[worker.k]

\* the wallpapers of ws that running animation workers hold, each with its
\* worker: what an event on ws finds being animated
animated(ws) ==
    UNION {{<<image_animators[k].req, image_animators[k].k, w>> :
              w \in Range(image_animators[k].wallpapers) \cap ws} :
           k \in {l \in 1..Len(image_animators) :
                    image_animators[l].pc = "running"}}

\* the workers that have not returned yet
live_workers ==
    Len(SelectSeq(transition_animators, LAMBDA t : t.pc # "finished"))
      + Len(SelectSeq(image_animators, LAMBDA a : a.pc # "returned"))

\* Animator::transition: the spawner starts and its first scope spawns a
\* transition worker for each pair of imgs.iter().zip(wallpapers.iter_mut())
Animator_transition(imgs, animations, groups) ==
    /\ reqCount < MaxRequests
    /\ live_workers + Len(groups) <= MaxThreads
    /\ \A k \in 1..Len(groups) : Range(groups[k]) \subseteq Range(wallpapers)
    /\ reqCount' = reqCount + 1
    /\ pc' = Append(pc, [stage |-> "transitions",
                         animations |-> animations,
                         wallpapers |-> groups,
                         found |-> animated(UNION {Range(groups[k]) :
                                                     k \in 1..Len(groups)})])
    /\ transition_animators' =
         transition_animators \o
           Collect([k \in 1..Min(Len(imgs), Len(groups)) |->
                      [req |-> Len(pc) + 1, k |-> k, img |-> imgs[k],
                       progress |-> 0, pc |-> "spawned"]],
                   Min(Len(imgs), Len(groups)))
    /\ answer' = AnswerOk
    /\ UNCHANGED <<wallpapers, wp, image_animators, poll_time, EXIT, socket,
                   errors, created, pairCount, promoted, pass>>

\* spawn_transition_thread, up to the transition loop: the empty test, the
\* set_img_info of every wallpaper and the test of the dimensions
transition_begin(j) ==
    LET t == transition_animators[j]
        ws == group(t)
        h1 == Collect([w \in Ids |->
                         IF w \in Range(ws)
                         THEN set_img_info(wp[w], BgImg(t.img.path))
                         ELSE wp[w]],
                      MaxOutputs)
    IN /\ t.pc = "spawned"
       /\ IF ws = <<>>
          THEN /\ transition_animators' =
                    [transition_animators EXCEPT ![j].pc = "finished"]
               /\ UNCHANGED <<wp, pc, errors>>
          ELSE /\ wp' = h1
               /\ IF t.img.dim # get_dimensions(h1[ws[1]])
                  THEN /\ pc' = [pc EXCEPT ![t.req].wallpapers[t.k] = <<>>]
                       /\ errors' = errors \cup {"image has wrong dimensions"}
                       /\ transition_animators' =
                            [transition_animators EXCEPT ![j].pc = "finished"]
                  ELSE /\ transition_animators' =
                            [transition_animators EXCEPT ![j].pc = "running"]
                       /\ UNCHANGED <<pc, errors>>
       /\ UNCHANGED <<wallpapers, image_animators, poll_time, EXIT, socket,
                      answer, created, reqCount, pairCount, promoted, pass>>

\* one turn of `while !transition.execute(wallpapers, &mut effect, img) {}`
transition_execute(j, results) ==
    LET t == transition_animators[j]
        ex == Transition_execute(wp, [wallpapers |-> group(t), img |-> t.img,
                                      progress |-> t.progress], results)
    IN /\ t.pc = "running"
       /\ wp' = ex[1]
       /\ transition_animators' =
            [transition_animators EXCEPT
               ![j].progress = ex[2],
               ![j].pc = IF ex[3] THEN "finished" ELSE "running"]
       /\ UNCHANGED <<wallpapers, image_animators, poll_time, EXIT, pc, socket,
                      answer, errors, created, reqCount, pairCount, promoted,
                      pass>>

\* a scope that does not wait for its threads
never_joined(req) == TRUE

\* the transition workers of a call have all returned
transitions_joined(req) ==
    \A j \in 1..Len(transition_animators) :
      transition_animators[j].req = req =>
        transition_animators[j].pc = "finished"

\* a spawner that has returned: what it owned is dropped
returned(s) == [s EXCEPT !.stage = "returned", !.animations = None,
                         !.wallpapers = <<>>]

\* the end of the first scope and the second one: once the transition workers
\* have returned they are gone, and an animation worker is spawned for each
\* pair of animations.iter().zip(wallpapers), if animations were given
spawn_animations(req) ==
    LET s == pc[req]
        n == IF s.animations = None THEN 0
             ELSE Min(Len(s.animations[1]), Len(s.wallpapers))
    IN /\ s.stage = "transitions"
       /\ transitions_joined(req)
       /\ pc' = [pc EXCEPT ![req] = IF n = 0 THEN returned(s)
                                    ELSE [s EXCEPT !.stage = "animations"]]
       /\ transition_animators' =
            SelectSeq(transition_animators,
                      LAMBDA t : t.req # req \/ t.pc # "finished")
       /\ image_animators' =
            image_animators \o
              Collect([k \in 1..n |->
                         [req |-> req, k |-> k,
                          animation |-> s.animations[1][k],
                          wallpapers |-> s.wallpapers[k],
                          tokens |-> <<>>,
                          i |-> 0,
                          pc |-> "spawned"]], n)
       /\ UNCHANGED <<wallpapers, wp, poll_time, EXIT,
                      socket, answer, errors, created, reqCount, pairCount,
                      promoted, pass>>

\* tokens = wallpapers.iter().map(|w| w.create_animation_token()).collect()
create_tokens(h, ws) ==
    <<Collect([w \in Ids |-> IF w \in Range(ws)
                             THEN create_animation_token(h[w]) ELSE h[w]],
              MaxOutputs),
      Collect([k \in 1..Len(ws) |->
                 create_animation_token(h[ws[k]]).animation_token], Len(ws))>>

\* spawn_animation_thread, up to the frame loop
animation_begin(k) ==
    LET a == image_animators[k]
        made == create_tokens(wp, a.wallpapers)
    IN /\ a.pc = "spawned"
       /\ IF Len(frames(a)) <= 1 \/ a.wallpapers = <<>>
          THEN /\ image_animators' =
                    [image_animators EXCEPT ![k].pc = "returned"]
               /\ wp' = wp
          ELSE /\ image_animators' =
                    [image_animators EXCEPT ![k].pc = "running",
                                            ![k].tokens = made[2]]
               /\ wp' = made[1]
       /\ UNCHANGED <<wallpapers, transition_animators, poll_time, EXIT, pc,
                      socket, answer, errors, created, reqCount, pairCount,
                      promoted, pass>>

\* the while loop of the animation worker from index j on:
\* <<the wallpapers, the worker's wallpaper list, its token list>>
RECURSIVE worker_loop(_, _, _, _, _, _)
worker_loop(h, ws, tokens, j, id, results) ==
    IF j > Len(ws) THEN <<h, ws, tokens>>
    ELSE IF ~has_animation_id(h[ws[j]], tokens[j])
         THEN worker_loop(h, swap_remove(ws, j), swap_remove(tokens, j), j,
                          id, results)
         ELSE IF results[ws[j]] # "Ok"
              THEN worker_loop(h, swap_remove(ws, j), swap_remove(tokens, j),
                               j, id, results)
              ELSE worker_loop([h EXCEPT ![ws[j]].canvas = Canvas("frame", id)],
                               ws, tokens, j + 1, id, results)

\* one frame of the animation worker: the wait at the barrier, the loop over
\* its wallpapers, and attach, sleep and commit if some wallpaper is left
animation_frame(k, results) ==
    LET a == image_animators[k]
        r == worker_loop(wp, a.wallpapers, a.tokens, 1, a.animation.id,
                         results)
    IN /\ a.pc = "running"
       /\ barrier_wait(image_animators, k)
       /\ image_animators' =
            [image_animators EXCEPT
               ![k].wallpapers = r[2],
               ![k].tokens = r[3],
               ![k].i = (a.i + 1) % Len(frames(a)),
               ![k].pc = IF r[2] = <<>> THEN "returned" ELSE "running"]
       /\ wp' = IF r[2] = <<>> THEN r[1] ELSE commit_wallpapers(r[1], r[2])
       /\ UNCHANGED <<wallpapers, transition_animators, poll_time, EXIT, pc,
                      socket, answer, errors, created, reqCount, pairCount,
                      promoted, pass>>

\* the end of the second scope: the animation workers have all returned and
\* are gone, and the spawner returns
spawner_returns(req) ==
    /\ pc[req].stage = "animations"
    /\ \A k \in 1..Len(image_animators) :
         image_animators[k].req = req => image_animators[k].pc = "returned"
    /\ pc' = [pc EXCEPT ![req] = returned(@)]
    /\ image_animators' = SelectSeq(image_animators, LAMBDA a : a.req # req)
    /\ UNCHANGED <<wallpapers, wp, transition_animators,
                   poll_time, EXIT, socket, answer, errors, created, reqCount,
                   pairCount, promoted, pass>>

\* the event loop's Daemon beside the threaded Animator: the workers are in
\* neither of its animator lists
beside == [Daemon EXCEPT !.transition_animators = <<>>,
                         !.image_animators = <<>>]

\* a Clear request is handled while workers run; it is entered in the list of
\* the calls with what it found being animated
clear_beside(color, names) ==
    /\ reqCount < MaxRequests
    /\ reqCount' = reqCount + 1
    /\ wp' = recv_clear(beside, color, names).wp
    /\ pc' = Append(pc, [stage |-> "clear",
                         animations |-> None,
                         wallpapers |-> <<>>,
                         found |-> animated(Range(find_wallpapers_by_names(
                                                    beside, names)))])
    /\ answer' = AnswerOk
    /\ UNCHANGED <<wallpapers, transition_animators, image_animators,
                   poll_time, EXIT, socket, errors, created, pairCount,
                   promoted, pass>>

\* an output is removed while workers run; entered in the list likewise
remove_beside(name) ==
    /\ name \in Range(wallpapers)
    /\ wallpapers' = global_remove(beside, name).wallpapers
    /\ pc' = Append(pc, [stage |-> "removed",
                         animations |-> None,
                         wallpapers |-> <<>>,
                         found |-> animated({name})])
    /\ UNCHANGED <<wp, transition_animators, image_animators, poll_time, EXIT,
                   socket, answer, errors, created, reqCount, pairCount,
                   promoted, pass>>

NextAnimator ==
    \/ \E groups \in GroupLists :
         \E imgs \in ImgLists(reqCount + 1, Len(groups), Len(groups)),
            animations \in AnimationChoices(reqCount + 1, Len(groups)) :
           Animator_transition(imgs, animations, groups)
    \/ \E j \in 1..Len(transition_animators) : transition_begin(j)
    \/ \E j \in 1..Len(transition_animators), results \in TransitionResults :
         transition_execute(j, results)
    \/ \E req \in 1..Len(pc) : spawn_animations(req)
    \/ \E k \in 1..Len(image_animators) : animation_begin(k)
    \/ \E k \in 1..Len(image_animators), results \in [Ids -> CanvasResults] :
         animation_frame(k, results)
    \/ \E req \in 1..Len(pc) : spawner_returns(req)

SpecAnimator == InitAnimator /\ [][NextAnimator]_vars

\* The workers beside the event loop: calls for one group, of one or of both
\* wallpapers, with an image of their dimensions and no animation or one of
\* MaxFrames frames, and Clear requests and output removals between them.
NextBeside ==
    \/ \E groups \in {<< <<1>> >>, << <<1, 2>> >>},
          animations \in {None,
                          Some(<<Animation(path_of(reqCount + 1, 1), MaxFrames)>>)} :
         Animator_transition(<<ImgReq(path_of(reqCount + 1, 1),
                                      get_dimensions(Wallpaper_arc))>>,
                             animations, groups)
    \/ \E j \in 1..Len(transition_animators) : transition_begin(j)
    \/ \E j \in 1..Len(transition_animators), results \in TransitionResults :
         transition_execute(j, results)
    \/ \E req \in 1..Len(pc) : spawn_animations(req)
    \/ \E k \in 1..Len(image_animators) : animation_begin(k)
    \/ \E k \in 1..Len(image_animators), results \in [Ids -> CanvasResults] :
         animation_frame(k, results)
    \/ \E req \in 1..Len(pc) : spawner_returns(req)
    \/ \E color \in Colors, names \in NameLists : clear_beside(color, names)
    \/ \E name \in Ids : remove_beside(name)

SpecBeside == InitAnimator /\ [][NextBeside]_vars


----
(* Properties *)

holds(a, w) == w \in Range(a.wallpapers)

\* the animators that hold the wallpaper w in the daemon d, by the path of
\* their image: <<among the transition animators, among the image animators>>
membership(d, w) ==
    <<{d.transition_animators[k].img.path :
         k \in {j \in 1..Len(d.transition_animators) :
                  holds(d.transition_animators[j], w)}},
      {d.image_animators[k].path :
         k \in {j \in 1..Len(d.image_animators) :
                  holds(d.image_animators[j], w)}}>>

\* C1: every wallpaper of every TransitionAnimator of the daemon has
\* get_dimensions() equal to the dimensions of the animator's image (stated
\* for the animators whose wallpapers are all configured).
C1_DimensionsMatch ==
    \A k \in 1..Len(transition_animators) :
      LET t == transition_animators[k] IN
      (\A w \in Range(t.wallpapers) : wp[w].configured) =>
        \A w \in Range(t.wallpapers) : get_dimensions(wp[w]) = t.img.dim

C3_FramesCycle ==
    \A k \in 1..Len(image_animators) :
      LET a == image_animators[k] IN
      a.calls > 0 =>
        /\ a.decoded = (a.calls - 1) % Len(frames(a))
        /\ a.timed = a.decoded

\* an ImageAnimator that lost a wallpaper in a frame() call, kept another and
\* has gone round its frames
C3_Witness ==
    \E k \in 1..Len(image_animators) :
      LET a == image_animators[k] IN
      /\ a.removed
      /\ a.wallpapers # <<>>
      /\ a.calls > Len(frames(a))

\* C4: the event loop never indexes an empty frame sequence (the thread does
\* not panic in time_to_draw or frame() of an ImageAnimator).
C4_NoEmptyIndexing == pc # "panicked"

\* C5: time_to_draw of a TransitionAnimator and of an ImageAnimator is never
\* negative: it is the period (the current frame's duration) less the elapsed
\* time while that is positive, and zero otherwise.
C5_TimeToDrawSaturates ==
    /\ \A k \in 1..Len(transition_animators) :
         LET t == transition_animators[k]
             time == TransitionAnimator_time_to_draw(t)
         IN /\ time >= 0
            /\ time = IF t.elapsed < t.fps THEN t.fps - t.elapsed ELSE 0
    /\ \A k \in 1..Len(image_animators) :
         LET a == image_animators[k] IN
         Len(frames(a)) > 0 =>
           LET time == ImageAnimator_time_to_draw(a)
               duration == frames(a)[(a.i % Len(frames(a))) + 1][2]
           IN /\ time >= 0
              /\ time = IF a.elapsed < duration THEN duration - a.elapsed ELSE 0

\* an ImageAnimator past the duration of its current frame
C5_Witness ==
    \E k \in 1..Len(image_animators) :
      LET a == image_animators[k] IN
      /\ Len(frames(a)) > 0
      /\ a.elapsed > frames(a)[(a.i % Len(frames(a))) + 1][2]

\* the wallpapers whose name is in the list
Named(names) == {w \in Range(wallpapers) : \E n \in names : has_name(w, n)}

\* the wallpapers find_wallpapers_by_names answers for the list
Found(names) == Range(find_wallpapers_by_names(Daemon, names))

\* Clear(color) for the list `names`, S being the wallpapers it is for: a
\* Query then reports Color(color) for the wallpapers of S, and the others
\* keep their background descriptor, their canvas and their animators
ClearEffect(S, color, names) ==
    LET d == recv_clear(Daemon, color, names)
        info == wallpapers_info(d)
    IN /\ \A k \in 1..Len(info) :
            info[k].name \in S => info[k].img = BgColor(color)
       /\ \A w \in Ids \ S :
            /\ d.wp[w].img = wp[w].img
            /\ d.wp[w].canvas = wp[w].canvas
            /\ membership(d, w) = membership(Daemon, w)

\* C6 as stated: in every state, Clear(c) changes the wallpapers the list
\* names, and only them, for every list, the empty one included.
C6_ClearNamed ==
    \A color \in Colors, names \in NameLists :
      ClearEffect(Named(names), color, names)

\* C6 amended: in every state, Clear(c) changes the wallpapers that
\* find_wallpapers_by_names answers for the list, and only them: the ones the
\* list names, and every wallpaper when the list is empty.
C6_ClearFound ==
    \A color \in Colors, names \in NameLists :
      ClearEffect(Found(names), color, names)

\* a Clear was handled for one wallpaper while another one stays animated
C6_Witness ==
    \E w \in Range(wallpapers), v \in Range(wallpapers) :
      /\ w # v
      /\ \E color \in Colors :
           wp[w].img = BgColor(color) /\ wp[w].canvas = Canvas("color", color)
      /\ ~in_animator(Daemon, w)
      /\ in_animator(Daemon, v)

\* C7: a wallpaper is held by at most one animator of the two lists, and by
\* none that existed before the last Img or Clear request for it: the
\* animator that holds it was made for the image that request set on it.
C7_Supersession ==
    \A w \in Ids :
      /\ Cardinality({k \in 1..Len(transition_animators) :
                        holds(transition_animators[k], w)})
           + Cardinality({k \in 1..Len(image_animators) :
                            holds(image_animators[k], w)}) <= 1
      /\ \A k \in 1..Len(transition_animators) :
           holds(transition_animators[k], w) =>
             wp[w].img = BgImg(transition_animators[k].img.path)
      /\ \A k \in 1..Len(image_animators) :
           holds(image_animators[k], w) =>
             wp[w].img = BgImg(image_animators[k].path)

\* the second request took one wallpaper from the animator of the first,
\* which goes on with another wallpaper
C7_Witness ==
    \E w \in Ids, v \in Ids :
      /\ w # v
      /\ membership(Daemon, w)[1] \cup membership(Daemon, w)[2] # {}
      /\ membership(Daemon, v)[1] \cup membership(Daemon, v)[2] # {}
      /\ \A q \in membership(Daemon, w)[1] \cup membership(Daemon, w)[2] :
           request_of(q) = 1
      /\ \A q \in membership(Daemon, v)[1] \cup membership(Daemon, v)[2] :
           request_of(q) = 2

\* C8: whenever an image is written to the canvas of a wallpaper, it is the
\* image of the last Img request for the wallpaper: after the second of two
\* requests no frame of the first request is drawn.
C8_OnlyLatestImageDrawn ==
    [][\A w \in Ids :
         (wp'[w].canvas # wp[w].canvas /\ wp'[w].canvas.src = "img") =>
           wp'[w].img = BgImg(wp'[w].canvas.v)]_vars

\* two Img requests were handled, the transition of the second is over and
\* its animation draws its frames
C8_Witness ==
    /\ reqCount = 2
    /\ pairCount = 2
    /\ transition_animators = <<>>
    /\ \E k \in 1..Len(image_animators) :
         LET a == image_animators[k] IN
         /\ request_of(a.path) = 2
         /\ a.calls >= 1
         /\ a.wallpapers # <<>>
         /\ \A w \in Range(a.wallpapers) : wp[w].canvas = Canvas("img", a.path)

\* C9: a TransitionAnimator whose frame() returned true in a draw pass is no
\* longer in transition_animators, and image_animators holds an ImageAnimator
\* over the same wallpapers at index 0 if and only if the animator carried an
\* animation.
C9_Promotion ==
    \A k \in 1..Len(promoted) :
      LET t == promoted[k].animator
          into == promoted[k].into
      IN /\ t.over
         /\ ~\E j \in 1..Len(transition_animators) :
               transition_animators[j].img.path = t.img.path
         /\ (into # None) <=> (t.animation # None)
         /\ into # None =>
              /\ into[1].wallpapers = t.wallpapers
              /\ into[1].i = 0
              /\ into[1].animation = t.animation[1]
              /\ \E j \in 1..Len(image_animators) :
                   /\ image_animators[j].path = t.img.path
                   /\ image_animators[j].wallpapers = t.wallpapers
                   /\ image_animators[j].animation = t.animation[1]
                   /\ image_animators[j].i = 0
         /\ into = None =>
              ~\E j \in 1..Len(image_animators) :
                 image_animators[j].path = t.img.path

\* a draw pass promoted a TransitionAnimator that carried an animation
C9_Witness ==
    \E k \in 1..Len(promoted) :
      promoted[k].animator.animation # None /\ promoted[k].into # None

\* C10: the TransitionAnimator that an Img request makes for its image i
\* holds wallpapers that the output group i names, and carries the animation
\* i if it carries one, whatever the lengths of the three lists.
C10_IndexesAlign ==
    [][\A li \in Lists.lengths, lo \in Lists.lengths :
         \A imgs \in ImgLists(reqCount + 1, li, Min(li, lo)),
            outputs \in OutputLists(lo, Min(li, lo)),
            animations \in AnimationOptions(Lists, Min(li, lo)),
            results \in [Ids -> Lists.results] :
           Img(Lists, imgs, outputs, animations, results) =>
             \A k \in 1..Len(transition_animators') :
               LET t == transition_animators'[k]
                   i == index_of(t.img.path)
               IN request_of(t.img.path) = reqCount' =>
                    /\ i <= Len(outputs)
                    /\ i <= Len(outputs) =>
                         Range(t.wallpapers) \subseteq
                           Range(find_wallpapers_by_names(Daemon, outputs[i]))
                    /\ t.animation # None => t.animation[1].id = i]_vars

\* C11: an Img request with an image whose dimensions differ from the target
\* wallpaper's is answered with an error: whenever the iteration logged the
\* dimension mismatch (and so dropped the pair), the Answer sent is not
\* Answer::Ok, and the exit flag is not set by it.
C11_MismatchAnswersError ==
    "image has wrong dimensions" \in errors =>
       /\ answer.kind # "Ok"
       /\ ~EXIT

\* the fields of the Daemon that a request may act on, and the exit flag
same_daemon(d) ==
    /\ d.wallpapers = wallpapers
    /\ d.wp = wp
    /\ d.transition_animators = transition_animators
    /\ d.image_animators = image_animators
    /\ d.poll_time = poll_time
    /\ d.exit = EXIT

\* C12: Ping is answered Answer::Ping(b) with b true exactly when no wallpaper
\* of the daemon's set is unconfigured (true with no outputs), Query is
\* answered with the info of the set, and in every state neither handler
\* changes the wallpaper set, the wallpapers, the animator lists, poll_time or
\* the exit flag.
C12_PingQueryReadOnly ==
    LET results == Collect([w \in Ids |-> "Ok"], MaxOutputs)
        unconfigured == {k \in 1..Len(wallpapers) : ~wp[wallpapers[k]].configured}
        ping == recv_socket_msg(Daemon, "Ok", RequestPing, results)
        query == recv_socket_msg(Daemon, "Ok", RequestQuery, results)
    IN /\ same_daemon(ping)
       /\ ping.answer.kind = "Ping"
       /\ ping.answer.ping = (unconfigured = {})
       /\ same_daemon(query)
       /\ query.answer.kind = "Info"
       /\ Len(query.answer.info) = Len(wallpapers)
       /\ answer.kind = "Ping" => answer.ping = (unconfigured = {})

\* a Ping was answered true by a daemon without outputs
C12_Witness ==
    /\ answer = AnswerPing(TRUE)
    /\ wallpapers = <<>>

\* a Ping was answered false: a wallpaper is not configured
C12_WitnessUnconfigured ==
    /\ answer = AnswerPing(FALSE)
    /\ \E w \in Range(wallpapers) : ~wp[w].configured

\* C13: a Kill request is answered Answer::Ok and sets the exit flag; the
\* exit flag is never cleared; a step that begins with the flag set, or that
\* sets it in an iteration of the loop, ends outside the loop (a set flag with
\* main still in the loop is left by a signal alone, which changes nothing
\* else, and the iteration after it, an interrupted poll included, is the
\* last); and when main has returned the socket's file is removed.
C13_Shutdown ==
    [][/\ Kill(Faults) => (answer' = AnswerOk /\ EXIT')
       /\ EXIT => EXIT'
       /\ EXIT => pc' \notin {"loop", "retry"}
       /\ (EXIT' /\ pc' \in {"loop", "retry"}) =>
            /\ ~EXIT
            /\ UNCHANGED <<wallpapers, wp, transition_animators,
                           image_animators, poll_time, pc, socket>>
       /\ pc' = "exited" => (EXIT' /\ ~socket')
       /\ pc' \in {"loop", "retry"} => socket']_vars

\* a Kill request was answered and main returned, the socket's file removed
C13_Witness ==
    /\ pc = "exited"
    /\ answer = AnswerOk
    /\ EXIT
    /\ ~socket
    /\ errors = {}

\* a signal set the flag, the blocked poll was interrupted and main returned
C13_WitnessSignal ==
    /\ pc = "exited"
    /\ answer = NoAnswer
    /\ errors = {}

\* C14: a poll or a wire receive that fails with EINTR dispatches no event,
\* runs no draw pass and changes no field of the daemon: main goes back to
\* the loop's test (and returns if the exit flag is set); with any other
\* error main returns the error and the loop does not continue.
C14_InterruptRetries ==
    [][\A errno \in Errnos :
         (PollError(Faults, errno) \/ WireError(Faults, errno)) =>
           /\ UNCHANGED <<wallpapers, wp, transition_animators,
                          image_animators, poll_time, EXIT>>
           /\ answer' = NoAnswer
           /\ pass' = NoPass
           /\ IF errno = "INTR"
              THEN pc' = IF EXIT THEN "exited" ELSE "retry"
              ELSE pc' = "failed"]_vars

\* a poll or a receive failed with another error and main returned it, with
\* animators in the daemon
C14_Witness ==
    /\ pc = "failed"
    /\ transition_animators # <<>> \/ image_animators # <<>>

\* an interrupted poll or receive was retried, with animators in the daemon
C14_WitnessRetry ==
    /\ pc = "retry"
    /\ poll_time = 1

\* recv_socket_msg with a failed read leaves the daemon as it is, sends no
\* answer and sets the exit flag, whatever the request would have been
unread(request) ==
    LET d == recv_socket_msg(Daemon, "Err", request,
                             Collect([w \in Ids |-> "Ok"], MaxOutputs))
    IN /\ d.wallpapers = wallpapers
       /\ d.wp = wp
       /\ d.transition_animators = transition_animators
       /\ d.image_animators = image_animators
       /\ d.poll_time = poll_time
       /\ d.answer = NoAnswer
       /\ d.exit

\* C15: a read failure on an accepted connection sets the exit flag, executes
\* no request (the handler changes neither the wallpaper set nor a wallpaper
\* nor an animator list), sends no answer, and its iteration is the last of
\* the loop; over the whole iteration, whose draw pass still runs when
\* poll_time > -1, the wallpaper set and the background descriptors are
\* unchanged.
C15_ReadFailureIsFatal ==
    [][/\ unread(RequestPing) /\ unread(RequestKill) /\ unread(RequestQuery)
       /\ \A color \in Colors, names \in NameLists :
            unread(RequestClear(color, names))
       /\ ReadFailure(Faults) =>
            /\ EXIT'
            /\ answer' = NoAnswer
            /\ "FATAL: cannot read socket" \in errors'
            /\ pc' \in {"exited", "panicked"}
            /\ wallpapers' = wallpapers
            /\ \A w \in Ids : wp'[w].img = wp[w].img]_vars

\* a read failed while the daemon held animators, and main returned
C15_Witness ==
    /\ "FATAL: cannot read socket" \in errors
    /\ pc = "exited"
    /\ EXIT
    /\ answer = NoAnswer
    /\ transition_animators # <<>> \/ image_animators # <<>>

\* a handler that rejected a scale of 0: nothing of the daemon changed
rejected(d) ==
    /\ d.wallpapers = wallpapers
    /\ d.wp = wp
    /\ d.transition_animators = transition_animators
    /\ d.image_animators = image_animators
    /\ d.poll_time = poll_time

\* C16: in every state a scale of 0 in a wl_output scale, a wl_surface
\* preferred_buffer_scale or a fractional preferred_scale event, for any
\* sender, leaves every wallpaper (its scale, its committed dimensions, its
\* configured flag) and both animator lists as they are; and over an
\* iteration that logged the rejection no wallpaper's scale, dimensions or
\* configured flag changes.
C16_ScaleZeroRejected ==
    [][/\ \A sender \in Ids :
            /\ rejected(output_scale(Daemon, sender, 0))
            /\ rejected(preferred_buffer_scale(Daemon, sender, 0))
            /\ rejected(preferred_scale(Daemon, sender, 0))
       /\ "received scale factor of 0 from compositor" \in errors' =>
            \A w \in Ids :
              /\ wp'[w].scale = wp[w].scale
              /\ wp'[w].dim = wp[w].dim
              /\ wp'[w].configured = wp[w].configured]_vars

\* a scale of 0 was rejected for a wallpaper that an animator holds and whose
\* scale an earlier event had set
C16_Witness ==
    /\ "received scale factor of 0 from compositor" \in errors
    /\ \E k \in 1..Len(transition_animators) :
         \E w \in Range(transition_animators[k].wallpapers) :
           wp[w].scale = Whole(2)

\* C17: in every state the scale of every wallpaper is a whole scale of at
\* least 1 or a fractional scale with a numerator of at least 1 over 120,
\* whatever values the compositor sent in its scale, preferred_buffer_scale
\* and preferred_scale events.
C17_ScaleIsPositive ==
    \A w \in Ids :
      /\ wp[w].scale.kind \in {"Whole", "Fractional"}
      /\ wp[w].scale.v >= 1

\* C18: in every state the transform of every wallpaper is within 0..7, and
\* a geometry event with any 32-bit transform from any sender changes
\* nothing but the transform of the wallpaper bound to the sender, and not
\* even that when the value, read as unsigned, is above 7 (a negative value
\* is).
C18_TransformInRange ==
    /\ \A w \in Ids : wp[w].transform \in 0..FLIPPED_270
    /\ \A sender \in Ids, transform \in I32 :
         LET d == output_geometry(Daemon, sender, transform) IN
         /\ d.wallpapers = wallpapers
         /\ d.transition_animators = transition_animators
         /\ d.image_animators = image_animators
         /\ d.poll_time = poll_time
         /\ \A w \in Ids \ {sender} : d.wp[w] = wp[w]
         /\ d.wp[sender] = [wp[sender] EXCEPT !.transform = d.wp[sender].transform]
         /\ d.wp[sender].transform \in 0..FLIPPED_270
         /\ transform \notin 0..FLIPPED_270 => d.wp = wp
         /\ (transform \in 0..FLIPPED_270 /\ sender \in Range(wallpapers)) =>
              d.wp[sender].transform = transform

\* an invalid transform was rejected after a valid one had been stored for
\* one of two wallpapers
C18_Witness ==
    /\ "received invalid transform value from compositor" \in errors
    /\ \E w1, w2 \in Range(wallpapers) :
         /\ wp[w1].transform = FLIPPED_270
         /\ wp[w2].transform = 0

\* the animator of the daemon that the entry e of a draw pass is about
current(e) ==
    IF e.kind = "transition"
    THEN {transition_animators[k] : k \in
            {j \in 1..Len(transition_animators) :
               transition_animators[j].img.path = e.path}}
    ELSE {image_animators[k] : k \in
            {j \in 1..Len(image_animators) : image_animators[j].path = e.path}}

\* the time to draw of the animator of an entry, when the pass came to it
entry_time(e) ==
    IF e.kind = "transition"
    THEN TransitionAnimator_time_to_draw(e.animator)
    ELSE ImageAnimator_time_to_draw(e.animator)

\* C19: in the last draw pass of an iteration, every animator that was drawn
\* (buffers attached, damaged and committed, frame() called) had all its
\* wallpapers draw-ready and a time to draw of at most 1200 microseconds when
\* the pass came to it; every other animator the pass came to is in the
\* daemon after the pass as it was, its clock not restarted (only the time
\* that passed is added to its elapsed time), and its wallpapers are as they
\* were.
C19_DrawGuards ==
    /\ \A k \in 1..Len(pass.drawn) :
         LET e == pass.drawn[k] IN
         /\ e.ready
         /\ \A j \in 1..Len(e.wps) : is_draw_ready(e.wps[j])
         /\ e.time = entry_time(e)
         /\ e.time <= DrawThreshold
    /\ \A k \in 1..Len(pass.skipped) :
         LET e == pass.skipped[k] IN
         /\ ~e.ready \/ entry_time(e) > DrawThreshold
         /\ \E a \in current(e) :
              /\ a = [e.animator EXCEPT !.elapsed = a.elapsed]
              /\ a.elapsed >= e.animator.elapsed
         /\ \A j \in 1..Len(e.wps) : wp[e.animator.wallpapers[j]] = e.wps[j]

\* a draw pass drew an animator and left alone another of the same list whose
\* wallpapers were draw-ready
C19_Witness ==
    /\ pass.drawn # <<>>
    /\ \E k \in 1..Len(pass.skipped) :
         /\ pass.skipped[k].ready
         /\ pass.skipped[k].kind = pass.drawn[1].kind

\* a draw pass drew an animator and left alone another whose wallpapers were
\* not draw-ready
C19_WitnessNotReady ==
    /\ pass.drawn # <<>>
    /\ \E k \in 1..Len(pass.skipped) : ~pass.skipped[k].ready

\* C20: at the head of the loop poll_time is -1 or 1, never 0: an Img request
\* sets it to 0 and the draw pass that ends its iteration recomputes it.
\* After the last draw pass of an iteration poll_time is 1 exactly when the
\* pass skipped an animator whose wallpapers were all draw-ready because its
\* time to draw was above 1200 microseconds, and -1 otherwise.  An iteration
\* whose handler calls no draw ends with a draw pass exactly when poll_time is
\* above -1 after the handler: always after an Img request (the only step
\* that counts a request here), and after any other event exactly when it was
\* 1 before (a step from -1 with a draw pass is a frame callback, whose
\* handler calls draw).
C20_PollTimeRecomputed ==
    [][/\ poll_time' \in {-1, 1}
       /\ (pass'.runs > 0 /\ pc' # "panicked") =>
            (poll_time' = 1 <=>
               \E k \in 1..Len(pass'.skipped) :
                 /\ pass'.skipped[k].ready
                 /\ pass'.skipped[k].time > DrawThreshold)
       /\ pass'.runs = 0 => (poll_time = -1 /\ poll_time' = -1)
       /\ reqCount' # reqCount => pass'.runs = 1
       /\ (reqCount' = reqCount /\ poll_time > -1 /\ pc' # "panicked") =>
            pass'.runs >= 1
       /\ (reqCount' = reqCount /\ poll_time = -1 /\ pass'.runs > 0) =>
            CallbackDone(Passes)]_vars

\* a draw pass drew an animator, skipped another that was ready but not due,
\* and left poll_time at 1
C20_Witness ==
    /\ poll_time = 1
    /\ pass.drawn # <<>>
    /\ \E k \in 1..Len(pass.skipped) :
         pass.skipped[k].ready /\ pass.skipped[k].time > DrawThreshold

\* a draw pass that found poll_time at 1 left it at -1: no animator was ready
\* and not due
C20_WitnessIdle ==
    /\ poll_time = -1
    /\ pass.runs = 1
    /\ pass.drawn = <<>>
    /\ pass.skipped # <<>>

\* C21: whenever main is about to poll, no animator of transition_animators
\* and none of image_animators has an empty wallpaper list.
C21_NoEmptyAnimators ==
    pc \in {"loop", "retry"} =>
      /\ \A k \in 1..Len(transition_animators) :
           transition_animators[k].wallpapers # <<>>
      /\ \A k \in 1..Len(image_animators) :
           image_animators[k].wallpapers # <<>>

\* C22: a frame() call removes from the animator's list exactly the
\* wallpapers whose canvas_change failed with a decode error (a wallpaper
\* whose buffer was unavailable stays in the list), writes the frame to the
\* canvas of the wallpapers whose canvas_change succeeded and to no other,
\* and advances the index by one whatever failed.
C22_RemovesOnDecodeError ==
    [][\A results \in [Ids -> CanvasOutcomes] :
         FrameCall(results) =>
           LET a == image_animators[1]
               b == image_animators'[1]
           IN /\ Range(b.wallpapers) =
                   {w \in Range(a.wallpapers) : results[w] # "DecodeError"}
              /\ b.i = a.i + 1
              /\ \A w \in Ids :
                   wp'[w] = IF w \in Range(a.wallpapers) /\ results[w] = "Ok"
                            THEN [wp[w] EXCEPT !.canvas = Canvas("img", a.path)]
                            ELSE wp[w]]_vars

\* the animators of a list without the wallpapers ws: what they hold of the
\* other wallpapers, in their order
rest(list, ws) ==
    SelectSeq(Collect([k \in 1..Len(list) |->
                         [list[k] EXCEPT !.wallpapers =
                            SelectSeq(@, LAMBDA w : w \notin ws)]],
                      Len(list)),
              LAMBDA a : a.wallpapers # <<>>)

\* what the animators of d hold of the wallpapers outside ws is what those
\* of the daemon hold of them
others_untouched(d, ws) ==
    /\ rest(d.transition_animators, ws) = rest(transition_animators, ws)
    /\ rest(d.image_animators, ws) = rest(image_animators, ws)

\* C23: in every state, a wl_output done and a fractional preferred_scale
\* event for a wallpaper take it out of its animators only if
\* commit_surface_changes returned true for it; when the commit changes
\* nothing both animator lists stay as they are; and what the animators hold
\* of the other wallpapers is untouched either way.
C23_StopsOnlyOnChange ==
    \A sender \in Range(wallpapers) :
      /\ LET d == output_done(Daemon, sender) IN
           /\ others_untouched(d, {sender})
           /\ ~commit_surface_changes(wp[sender])[2] =>
                /\ d.transition_animators = transition_animators
                /\ d.image_animators = image_animators
      /\ \A scale \in ScaleInputs :
           LET d == preferred_scale(Daemon, sender, scale)
               staged == set_scale(wp[sender], Fractional(as_i32(scale)))
           IN /\ others_untouched(d, {sender})
              /\ (scale = 0 \/ ~commit_surface_changes(staged)[2]) =>
                   /\ d.transition_animators = transition_animators
                   /\ d.image_animators = image_animators

\* the animation of worker a was written into some canvas
drew(a) == \E w \in Ids : wp[w].canvas = Canvas("frame", a.animation.id)

\* C24: within one call of Animator::transition an animation worker exists
\* only once every transition worker of that call has finished; the group of
\* a transition worker that found the image's dimensions wrong is empty; and
\* an animation worker whose group is empty or whose animation has at most one
\* frame holds no token and has written no canvas.
C24_TransitionsFirst ==
    /\ \A k \in 1..Len(image_animators), j \in 1..Len(transition_animators) :
         transition_animators[j].req = image_animators[k].req =>
           transition_animators[j].pc = "finished"
    /\ \A j \in 1..Len(transition_animators) :
         LET t == transition_animators[j] IN
           (t.pc # "spawned" /\ t.img.dim # get_dimensions(Wallpaper_arc)) =>
              /\ t.pc = "finished"
              /\ group(t) = <<>>
    /\ \A k \in 1..Len(image_animators) :
         LET a == image_animators[k] IN
           (group(a) = <<>> \/ Len(frames(a)) <= 1) =>
              /\ a.tokens = <<>>
              /\ a.pc # "running"
              /\ ~drew(a)

\* a call with two groups: the first group's image had wrong dimensions, so
\* its animation worker returned at once, while the second group's animation
\* worker is running with a token and has drawn
C24_Witness ==
    /\ "image has wrong dimensions" \in errors
    /\ \E k, l \in 1..Len(image_animators) :
         /\ image_animators[k].req = image_animators[l].req
         /\ group(image_animators[k]) = <<>>
         /\ image_animators[k].pc = "returned"
         /\ image_animators[l].pc = "running"
         /\ image_animators[l].tokens # <<>>
         /\ drew(image_animators[l])

\* an animation worker of one frame has returned
C24_WitnessOneFrame ==
    \E k \in 1..Len(image_animators) :
      /\ Len(frames(image_animators[k])) = 1
      /\ image_animators[k].wallpapers # <<>>
      /\ image_animators[k].pc = "returned"

\* while worker a was animating wallpaper w, a transition or a Clear was
\* started on w or the output of w was removed
superseded(a, w) == \E s \in 1..Len(pc) : <<a.req, a.k, w>> \in pc[s].found

\* the step is one frame of the running animation worker k
frame_of(k) ==
    /\ Len(image_animators') = Len(image_animators)
    /\ image_animators[k].pc = "running"
    /\ image_animators'[k] # image_animators[k]

\* C25: in every frame of an animation worker, a wallpaper on which a new
\* transition or a Clear was started since, or whose output was removed, is
\* pruned with its token and its canvas is not written; the wallpapers the
\* worker keeps got the frame; and a worker left without wallpapers returns.
C25_Cancellation ==
    [][\A k \in 1..Len(image_animators) :
         frame_of(k) =>
           LET a == image_animators[k]
               b == image_animators'[k]
           IN /\ \A w \in Range(a.wallpapers) :
                   superseded(a, w) =>
                     /\ w \notin Range(b.wallpapers)
                     /\ wp'[w].canvas = wp[w].canvas
              /\ Len(b.tokens) = Len(b.wallpapers)
              /\ \A w \in Range(b.wallpapers) :
                   wp'[w].canvas = Canvas("frame", a.animation.id)
              /\ b.wallpapers = <<>> => b.pc = "returned"]_vars

\* some animator holds wallpapers that are all draw-ready
work_pending ==
    \/ \E k \in 1..Len(transition_animators) :
         /\ transition_animators[k].wallpapers # <<>>
         /\ all_draw_ready(Daemon, transition_animators[k])
    \/ \E k \in 1..Len(image_animators) :
         /\ image_animators[k].wallpapers # <<>>
         /\ all_draw_ready(Daemon, image_animators[k])

\* C26: whenever the loop is about to poll and some animator holds wallpapers
\* that are all draw-ready, the timeout of the poll is not -1, so the loop
\* does not block while there is something to draw.
C26_NoBlockWithWork ==
    (pc \in {"loop", "retry"} /\ work_pending) => poll_time # -1

\* C27: every wallpaper an animator holds is in the daemon's wallpaper set, so
\* after an output removal or a layer-surface closed event no animator holds
\* the destroyed wallpaper and no draw pass reaches it.
C27_AnimatorsHoldLiveWallpapers ==
    \A w \in Ids : in_animator(Daemon, w) => w \in Range(wallpapers)

\* the wallpapers of animator t were attached and committed and nothing came
\* back from the compositor since
committed(h, t) == \A w \in Range(t.wallpapers) : ~h[w].released /\ h[w].callback

C28_WitnessFirstFrame ==
    \E k \in 1..Len(transition_animators) :
      LET t == transition_animators[k] IN
        /\ t.progress = 1
        /\ \E w \in Range(t.wallpapers) :
             /\ ~wp[w].configured
             /\ wp[w].released /\ ~wp[w].callback
             /\ wp[w].canvas = Canvas("img", t.img.path)

\* an Img request for one image of dimensions dim, for the outputs `names`,
\* handled in the current state
one_img(dim, names) ==
    recv_socket_msg(Daemon, "Ok",
                    RequestImg(<<ImgReq(path_of(MaxRequests + 1, 1), dim)>>,
                               <<names>>, None),
                    Collect([w \in Ids |-> "Ok"], MaxOutputs))

\* C29: in every state, an Img request that is dropped because the image's
\* dimensions are not the wallpaper's leaves the background descriptor of
\* every wallpaper and both animator lists as they were.
C29_DroppedRequestChangesNothing ==
    \A dim \in DimSet, names \in NameLists :
      LET d == one_img(dim, names) IN
        "image has wrong dimensions" \in d.errors =>
           /\ \A w \in Ids : d.wp[w].img = wp[w].img
           /\ d.transition_animators = transition_animators
           /\ d.image_animators = image_animators

====
